---- MODULE Spec2Model ----
(***************************************************************************)
(* A model of acsl-go/sqlschema: the Schema model (Field, Index, Schema),  *)
(* the introspector ReadFromDB, the differ/emitter Schema.Update, the      *)
(* CREATE TABLE emitter Schema.Create and the tag-derived GetSchema.       *)
(*                                                                         *)
(* The database behind *sql.DB is modelled as one table of the catalog     *)
(* (information_schema TABLES / COLUMNS / STATISTICS) together with the    *)
(* effect MySQL gives to each statement the program sends.                 *)
(***************************************************************************)
EXTENDS Integers, Sequences, FiniteSets, TLC

VARIABLES
  table,     \* the table in the database (NoTable: it does not exist)
  desired,   \* sc, the receiver of Update: the desired schema
  current,   \* Update's cur: Nil, or the schema ReadFromDB returned
  rowsErr,   \* rows.Err() of ReadFromDB's result sets: an iteration failed
  pc,        \* where the caller is: new (before GetSchema), idle, create, alter, done
  next,      \* the index of the next statement Update sends
  executed,  \* the statements this run has passed to db.ExecContext
  err,       \* what Update returned: "nil" or the error
  runs,      \* Update calls returned so far
  prev,      \* how the previous call ended (stopped: failed after applied statements)
  calls,     \* the Update calls the caller makes
  data,      \* the tagged struct desired is derived from (<<>>: desired is given)
  statRows,  \* the STATISTICS rows the reader's last ReadFromDB call scanned
  dataSchemaCache, \* the sync.Map from struct types to *dataSchemaInfo
  loaders    \* the goroutines in loadDataSchemaInfo: where each is, what it returned

(***************************************************************************)
(* Bounds of the model.                                                    *)
(***************************************************************************)
\* Update runs per behaviour.
MaxRuns == 2
\* The rows an iteration error cuts off the end of a result set, at most.
MaxLost == 1
\* The fields of a tagged struct, at most.
MaxStructFields == 3
\* The goroutines that call loadDataSchemaInfo concurrently.
MaxLoaders == 3

(***************************************************************************)
(* Generic helpers.                                                        *)
(***************************************************************************)
\* A Go pointer that may be nil: <<>> is nil, <<x>> points at x.
Nil == <<>>
Some(x) == <<x>>

\* The element of a one-element set: The({F(x) : x \in {e}}) is F(e) with e
\* evaluated once.
The(S) == CHOOSE x \in S : TRUE

RECURSIVE PermSeqs(_)
\* All orders in which a result set without ORDER BY may be delivered.
PermSeqs(S) ==
  IF S = {} THEN {<<>>}
  ELSE UNION {{<<x>> \o p : p \in PermSeqs(S \ {x})} : x \in S}

Range(s) == {s[k] : k \in 1..Len(s)}

\* Sequences over S without repetition, of length 0..n.
(***************************************************************************)
(* Schema model: src/sqlscheme.update.go lines 128-223.                    *)
(***************************************************************************)
\* type Field struct
Field(name, type, nullable, ai, def, comment) ==
  [Name |-> name, Type |-> type, Nullable |-> nullable, AutoIncrement |-> ai,
   DefaultValue |-> def, Comment |-> comment]

\* type Index struct
Index(name, columns, primary, unique) ==
  [Name |-> name, Columns |-> columns, Primary |-> primary, Unique |-> unique]

\* type Schema struct
Schema(name, fields, indices, engine, collate, comment) ==
  [Name |-> name, Fields |-> fields, Indices |-> indices,
   Engine |-> engine, Collate |-> collate, Comment |-> comment]

\* func (sc *Schema) Field(name string) *Field
SchemaField(sc, name) ==
  LET hits == {k \in 1..Len(sc.Fields) : sc.Fields[k].Name = name}
  IN IF hits = {} THEN Nil
     ELSE Some(sc.Fields[CHOOSE k \in hits : \A j \in hits : k <= j])

\* Schema.Index without the PRIMARY alias of lines 163-165.
SchemaIndexNoAlias(sc, name) ==
  LET hits == {k \in 1..Len(sc.Indices) :
                 sc.Indices[k].Name = name \/ (name = "" /\ sc.Indices[k].Primary)}
  IN IF hits = {} THEN Nil
     ELSE Some(sc.Indices[CHOOSE k \in hits : \A j \in hits : k <= j])

\* func (sc *Schema) Index(name string) *Index
SchemaIndex(sc, name) ==
  LET nm == IF name = "PRIMARY" THEN "" ELSE name
      hits == {k \in 1..Len(sc.Indices) :
                 sc.Indices[k].Name = nm \/ (nm = "" /\ sc.Indices[k].Primary)}
  IN IF hits = {} THEN Nil
     ELSE Some(sc.Indices[CHOOSE k \in hits : \A j \in hits : k <= j])

\* Field.Equal's default values compared as written.
NormDefaultNone(v) == v

\* defVal1 == "NULL" -> "" (lines 187-194)
NormDefault(v) == IF v = "NULL" THEN "" ELSE v

\* func (fd *Field) Equal(other *Field) bool
FieldEqual(fd, other) ==
  IF fd.Name # other.Name THEN FALSE
  ELSE IF fd.Type # other.Type THEN FALSE
  ELSE IF fd.Nullable # other.Nullable THEN FALSE
  ELSE IF fd.AutoIncrement # other.AutoIncrement THEN FALSE
  ELSE IF NormDefault(fd.DefaultValue) # NormDefault(other.DefaultValue) THEN FALSE
  ELSE IF fd.Comment # other.Comment THEN FALSE
  ELSE TRUE

\* Index.Equal comparing the columns as a set, their order ignored.
IndexEqualUnordered(idx, other) ==
  /\ idx.Primary = other.Primary
  /\ (idx.Primary \/ idx.Name = other.Name)
  /\ idx.Unique = other.Unique
  /\ Range(idx.Columns) = Range(other.Columns)

\* func (idx *Index) Equal(other *Index) bool
IndexEqual(idx, other) ==
  IF idx.Primary # other.Primary THEN FALSE
  ELSE IF ~idx.Primary /\ idx.Name # other.Name THEN FALSE
  ELSE IF idx.Unique # other.Unique THEN FALSE
  ELSE IF Len(idx.Columns) # Len(other.Columns) THEN FALSE
  ELSE \A k \in 1..Len(idx.Columns) : idx.Columns[k] = other.Columns[k]

(***************************************************************************)
(* SQL statements.  A statement is its verb, its table and the list of its *)
(* comma (or space) separated parts; a part keeps what the rendered text   *)
(* carries: the keyword, the quoted identifier, the column clause and the  *)
(* parenthesised column list.                                              *)
(***************************************************************************)
NoClause ==
  [Type |-> "", Null |-> "", AutoIncrement |-> FALSE, Default |-> <<>>, Comment |-> <<>>]

Part(op, name, clause, cols) ==
  [op |-> op, name |-> name, clause |-> clause, cols |-> cols]

Stmt(verb, tbl, parts) == [verb |-> verb, table |-> tbl, parts |-> parts]

\* escape(): quotes a free text for a '...' literal.
escape(s) == IF s = "it's" THEN "it\\'s" ELSE s

\* The column clause of ADD / MODIFY / CREATE TABLE: type, NULL | NOT NULL,
\* AUTO_INCREMENT, DEFAULT (if non-empty), COMMENT (if non-empty).
ColumnClause(field) ==
  [Type |-> field.Type,
   Null |-> IF field.Nullable THEN "NULL" ELSE "NOT NULL",
   AutoIncrement |-> field.AutoIncrement,
   Default |-> IF field.DefaultValue # "" THEN <<field.DefaultValue>> ELSE <<>>,
   Comment |-> IF field.Comment # "" THEN <<escape(field.Comment)>> ELSE <<>>]

\* The keyword of an index clause: PRIMARY KEY | UNIQUE KEY `name` | KEY `name`.
IndexKeyword(index) ==
  IF index.Primary THEN "PRIMARY KEY"
  ELSE IF index.Unique THEN "UNIQUE KEY"
  ELSE "KEY"

\* The identifier an index clause quotes: none for PRIMARY KEY.
IndexClauseName(index) == IF index.Primary THEN "" ELSE index.Name

(***************************************************************************)
(* The database: one table of the catalog and MySQL's effect of a          *)
(* statement on it.                                                        *)
(***************************************************************************)
NoTable ==
  [exists |-> FALSE, Engine |-> "", Collate |-> "", Comment |-> "",
   Columns |-> <<>>, Keys |-> <<>>]

\* A row of information_schema.COLUMNS; COLUMN_DEFAULT is <<>> for SQL NULL.
Column(name, type, isNullable, def, comment, extra) ==
  [COLUMN_NAME |-> name, COLUMN_TYPE |-> type, IS_NULLABLE |-> isNullable,
   COLUMN_DEFAULT |-> def, COLUMN_COMMENT |-> comment, EXTRA |-> extra]

\* An index of the table: its rows of information_schema.STATISTICS share
\* INDEX_NAME and NON_UNIQUE, one row per column.
Key(name, cols, nonUnique) ==
  [INDEX_NAME |-> name, Columns |-> cols, NON_UNIQUE |-> nonUnique]

\* The text a '...' literal denotes.
Unescape(s) == IF s = "it\\'s" THEN "it's" ELSE s

\* The catalog row of a column defined by a column clause.
ColumnOfClause(name, clause) ==
  Column(name, clause.Type,
         IF clause.Null = "NULL" THEN "YES" ELSE "NO",
         IF clause.Default = <<>> \/ clause.Default = <<"NULL">> THEN <<>> ELSE clause.Default,
         IF clause.Comment = <<>> THEN "" ELSE Unescape(clause.Comment[1]),
         IF clause.AutoIncrement THEN "auto_increment" ELSE "")

ColumnNames(t) == {t.Columns[k].COLUMN_NAME : k \in 1..Len(t.Columns)}
KeyNames(t) == {t.Keys[k].INDEX_NAME : k \in 1..Len(t.Keys)}

\* s without the elements satisfying Drop.
RECURSIVE Without(_, _)
Without(s, dropped) ==
  IF s = <<>> THEN <<>>
  ELSE IF Head(s) \in dropped THEN Without(Tail(s), dropped)
  ELSE <<Head(s)>> \o Without(Tail(s), dropped)

\* Dropping a column removes it from every index; an index left without
\* columns is dropped with it.
KeysWithoutColumn(keys, name) ==
  LET cut == [k \in 1..Len(keys) |->
                [keys[k] EXCEPT !.Columns = Without(keys[k].Columns, {name})]]
  IN Without(cut, {c \in Range(cut) : c.Columns = <<>>})

\* Whether an index column list is one the database takes.
KeyColsOk(t, cols) ==
  /\ cols # <<>>
  /\ Range(cols) \subseteq ColumnNames(t)
  /\ \A j, k \in 1..Len(cols) : j # k => cols[j] # cols[k]

Rejected == [NoTable EXCEPT !.Comment = "<rejected>"]

\* One part of an ALTER TABLE applied to table t: the table after it, or
\* Rejected when MySQL refuses the part.
AlterPart(t, part) ==
  CASE part.op = "ENGINE =" ->
         IF part.name = "" THEN Rejected ELSE [t EXCEPT !.Engine = part.name]
    [] part.op = "COLLATE =" ->
         IF part.name = "" THEN Rejected ELSE [t EXCEPT !.Collate = part.name]
    [] part.op = "COMMENT =" -> [t EXCEPT !.Comment = Unescape(part.name)]
    [] part.op = "DROP" ->
         IF part.name \notin ColumnNames(t) \/ Len(t.Columns) = 1 THEN Rejected
         ELSE [t EXCEPT
                 !.Columns = Without(t.Columns,
                                     {c \in Range(t.Columns) : c.COLUMN_NAME = part.name}),
                 !.Keys = KeysWithoutColumn(t.Keys, part.name)]
    [] part.op = "ADD" ->
         IF part.name \in ColumnNames(t) \/ part.name = "" THEN Rejected
         ELSE [t EXCEPT !.Columns = Append(t.Columns, ColumnOfClause(part.name, part.clause))]
    [] part.op = "MODIFY" ->
         IF part.name \notin ColumnNames(t) THEN Rejected
         ELSE [t EXCEPT !.Columns =
                 [k \in 1..Len(t.Columns) |->
                    IF t.Columns[k].COLUMN_NAME = part.name
                    THEN ColumnOfClause(part.name, part.clause)
                    ELSE t.Columns[k]]]
    [] part.op = "DROP INDEX" ->
         IF part.name \notin KeyNames(t) THEN Rejected
         ELSE [t EXCEPT !.Keys = Without(t.Keys,
                                         {k \in Range(t.Keys) : k.INDEX_NAME = part.name})]
    [] part.op = "DROP PRIMARY KEY" ->
         IF "PRIMARY" \notin KeyNames(t) THEN Rejected
         ELSE [t EXCEPT !.Keys = Without(t.Keys,
                                         {k \in Range(t.Keys) : k.INDEX_NAME = "PRIMARY"})]
    [] part.op = "ADD PRIMARY KEY" ->
         IF "PRIMARY" \in KeyNames(t) \/ ~KeyColsOk(t, part.cols) THEN Rejected
         ELSE [t EXCEPT !.Keys = Append(t.Keys, Key("PRIMARY", part.cols, 0))]
    [] part.op \in {"ADD UNIQUE KEY", "ADD KEY"} ->
         IF part.name \in KeyNames(t) \cup {"", "PRIMARY"} \/ ~KeyColsOk(t, part.cols)
         THEN Rejected
         ELSE [t EXCEPT !.Keys = Append(t.Keys,
                 Key(part.name, part.cols, IF part.op = "ADD KEY" THEN 1 ELSE 0))]
    [] OTHER -> Rejected

RECURSIVE AlterParts(_, _)
AlterParts(t, parts) ==
  IF t = Rejected \/ parts = <<>> THEN t
  ELSE AlterParts(AlterPart(t, Head(parts)), Tail(parts))

\* One part of a CREATE TABLE: a column definition, an index definition or
\* a table option.
CreatePart(t, part) ==
  CASE part.op = "COLUMN" -> AlterPart(t, [part EXCEPT !.op = "ADD"])
    [] part.op = "PRIMARY KEY" -> AlterPart(t, [part EXCEPT !.op = "ADD PRIMARY KEY"])
    [] part.op = "UNIQUE KEY" -> AlterPart(t, [part EXCEPT !.op = "ADD UNIQUE KEY"])
    [] part.op = "KEY" -> AlterPart(t, [part EXCEPT !.op = "ADD KEY"])
    [] part.op = "ENGINE=" -> AlterPart(t, [part EXCEPT !.op = "ENGINE ="])
    [] part.op = "COLLATE=" -> AlterPart(t, [part EXCEPT !.op = "COLLATE ="])
    [] part.op = "COMMENT=" -> AlterPart(t, [part EXCEPT !.op = "COMMENT ="])
    [] OTHER -> Rejected

RECURSIVE CreateParts(_, _)
CreateParts(t, parts) ==
  IF t = Rejected \/ parts = <<>> THEN t
  ELSE CreateParts(CreatePart(t, Head(parts)), Tail(parts))

\* The engine and collation a table gets when CREATE TABLE names none.
ServerDefaults == [NoTable EXCEPT !.exists = TRUE, !.Engine = "InnoDB",
                                  !.Collate = "utf8mb4_general_ci"]

\* The table after the database has executed stmt, or Rejected.
Execute(t, stmt) ==
  IF stmt.verb = "ALTER TABLE"
  THEN IF ~t.exists \/ stmt.parts = <<>> THEN Rejected ELSE AlterParts(t, stmt.parts)
  ELSE IF stmt.verb = "CREATE TABLE IF NOT EXISTS"
  THEN IF t.exists THEN t
       ELSE LET made == CreateParts(ServerDefaults, stmt.parts)
            IN IF made # Rejected /\ made.Columns = <<>> THEN Rejected ELSE made
  ELSE Rejected

(***************************************************************************)
(* Introspector: ReadFromDB (src/unnamed/part_000).                        *)
(***************************************************************************)
\* The rows of information_schema.STATISTICS for table t: one per
\* (index, column), SEQ_IN_INDEX the column's position in the index.
StatRows(t) ==
  UNION {{[INDEX_NAME |-> t.Keys[k].INDEX_NAME, SEQ_IN_INDEX |-> n,
           COLUMN_NAME |-> t.Keys[k].Columns[n], NON_UNIQUE |-> t.Keys[k].NON_UNIQUE] :
            n \in 1..Len(t.Keys[k].Columns)} : k \in 1..Len(t.Keys)}

\* Lines 29-46: one Field per scanned COLUMNS row.
FieldOfRow(r) ==
  Field(r.COLUMN_NAME, r.COLUMN_TYPE, r.IS_NULLABLE = "YES", r.EXTRA = "auto_increment",
        IF r.COLUMN_DEFAULT # <<>> THEN r.COLUMN_DEFAULT[1] ELSE "", r.COLUMN_COMMENT)

\* Lines 53-75: the rows are grouped by INDEX_NAME in the order delivered;
\* seq is scanned and not used.
RECURSIVE ScanIndexRows(_, _)
ScanIndexRows(rows, idxs) ==
  IF rows = <<>> THEN idxs
  ELSE LET r == Head(rows)
           hit == {k \in 1..Len(idxs) : idxs[k].Name = r.INDEX_NAME}
       IN IF hit = {}
          THEN ScanIndexRows(Tail(rows),
                 Append(idxs, Index(r.INDEX_NAME, <<r.COLUMN_NAME>>,
                                    r.INDEX_NAME = "PRIMARY",
                                    r.INDEX_NAME # "PRIMARY" /\ r.NON_UNIQUE = 0)))
          ELSE LET k == CHOOSE k \in hit : TRUE
               IN ScanIndexRows(Tail(rows),
                    [idxs EXCEPT ![k].Columns = Append(@, r.COLUMN_NAME)])

\* The schema ReadFromDB returns for an existing table t whose COLUMNS rows
\* arrive as colRows and whose STATISTICS rows arrive as idxRows.
ReadFromDB(name, t, colRows, idxRows) ==
  Schema(name, [k \in 1..Len(colRows) |-> FieldOfRow(colRows[k])],
         ScanIndexRows(idxRows, <<>>), t.Engine, t.Collate, t.Comment)

\* The errors ReadFromDB wraps, by probe (lines 13, 21, 26, 34, 50, 60).
ReadErrors(t) ==
  {"Get database name failed", "Get table info failed"}
  \cup (IF t.exists THEN {"Get table columns failed", "Get table indexs failed"} ELSE {})
  \cup (IF t.exists /\ t.Columns # <<>> THEN {"Scan table columns failed"} ELSE {})
  \cup (IF t.exists /\ t.Keys # <<>> THEN {"Scan table indexs failed"} ELSE {})

(***************************************************************************)
(* Differ and emitter: Schema.Update (src/sqlscheme.update.go) and         *)
(* Schema.Create (src/unnamed/part_001).                                   *)
(***************************************************************************)
RECURSIVE FlatMap(_, _)
FlatMap(F(_), s) == IF s = <<>> THEN <<>> ELSE F(Head(s)) \o FlatMap(F, Tail(s))

\* Lines 18-39: one statement carrying the changed table attributes.
AttrStmts(sc, cur) ==
  LET parts ==
        (IF sc.Engine # cur.Engine
         THEN <<Part("ENGINE =", sc.Engine, NoClause, <<>>)>> ELSE <<>>)
        \o (IF sc.Collate # cur.Collate
            THEN <<Part("COLLATE =", sc.Collate, NoClause, <<>>)>> ELSE <<>>)
        \o (IF sc.Comment # cur.Comment
            THEN <<Part("COMMENT =", escape(sc.Comment), NoClause, <<>>)>> ELSE <<>>)
  IN IF parts # <<>> THEN <<Stmt("ALTER TABLE", sc.Name, parts)>> ELSE <<>>

\* Lines 41-49: DROP for every field of cur that sc lacks.
FieldDropStmts(sc, cur) ==
  FlatMap(LAMBDA field :
            IF SchemaField(sc, field.Name) = Nil
            THEN <<Stmt("ALTER TABLE", sc.Name, <<Part("DROP", field.Name, NoClause, <<>>)>>)>>
            ELSE <<>>,
          cur.Fields)

\* The field loop sending MODIFY for every field cur has, equal or not.
FieldStmtsAlwaysModify(sc, cur) ==
  FlatMap(LAMBDA field :
            <<Stmt("ALTER TABLE", sc.Name,
                   <<Part(IF SchemaField(cur, field.Name) = Nil THEN "ADD" ELSE "MODIFY",
                          field.Name, ColumnClause(field), <<>>)>>)>>,
          sc.Fields)

\* Lines 51-79: ADD for a field cur lacks, MODIFY for one that differs.
FieldStmts(sc, cur) ==
  FlatMap(LAMBDA field :
            LET fd == SchemaField(cur, field.Name)
                op == IF fd = Nil THEN "ADD"
                      ELSE IF ~FieldEqual(fd[1], field) THEN "MODIFY"
                      ELSE ""
            IN IF op # ""
               THEN <<Stmt("ALTER TABLE", sc.Name,
                           <<Part(op, field.Name, ColumnClause(field), <<>>)>>)>>
               ELSE <<>>,
          sc.Fields)

\* Lines 81-89: DROP INDEX for every index of cur that sc lacks.
IndexDropStmts(sc, cur) ==
  FlatMap(LAMBDA index :
            IF SchemaIndex(sc, index.Name) = Nil
            THEN <<Stmt("ALTER TABLE", sc.Name,
                        <<Part("DROP INDEX", index.Name, NoClause, <<>>)>>)>>
            ELSE <<>>,
          cur.Indices)

\* Lines 95-101: the part adding index.
AddIndexPart(index) ==
  Part("ADD " \o IndexKeyword(index), IndexClauseName(index), NoClause, index.Columns)

\* Lines 103-109: the part dropping the index that index replaces.
DropForReplacePart(index) ==
  IF index.Primary THEN Part("DROP PRIMARY KEY", "", NoClause, <<>>)
  ELSE Part("DROP INDEX", index.Name, NoClause, <<>>)

\* Lines 91-121: ADD for an index cur lacks, DROP + ADD for one that differs.
IndexStmts(sc, cur) ==
  FlatMap(LAMBDA index :
            LET idx == SchemaIndex(cur, index.Name)
            IN IF idx = Nil
               THEN <<Stmt("ALTER TABLE", sc.Name, <<AddIndexPart(index)>>)>>
               ELSE IF ~IndexEqual(idx[1], index)
               THEN <<Stmt("ALTER TABLE", sc.Name,
                           <<DropForReplacePart(index), AddIndexPart(index)>>)>>
               ELSE <<>>,
          sc.Indices)

\* Update with the field loop of lines 51-79 before the drop loop of 41-49.
UpdateStatementsAddsFirst(sc, cur) ==
  AttrStmts(sc, cur) \o FieldStmts(sc, cur) \o FieldDropStmts(sc, cur)
  \o IndexDropStmts(sc, cur) \o IndexStmts(sc, cur)

\* Lines 18-123: the statements Update sends for sc against the introspected
\* cur, in the order it sends them, when none of them fails.
UpdateStatements(sc, cur) ==
  AttrStmts(sc, cur) \o FieldDropStmts(sc, cur) \o FieldStmts(sc, cur)
  \o IndexDropStmts(sc, cur) \o IndexStmts(sc, cur)

\* Schema.Create: the CREATE TABLE IF NOT EXISTS statement of sc.
CreateStatement(sc) ==
  Stmt("CREATE TABLE IF NOT EXISTS", sc.Name,
       [k \in 1..Len(sc.Fields) |->
          Part("COLUMN", sc.Fields[k].Name, ColumnClause(sc.Fields[k]), <<>>)]
       \o [k \in 1..Len(sc.Indices) |->
             Part(IndexKeyword(sc.Indices[k]), IndexClauseName(sc.Indices[k]), NoClause,
                  sc.Indices[k].Columns)]
       \o (IF sc.Engine # "" THEN <<Part("ENGINE=", sc.Engine, NoClause, <<>>)>> ELSE <<>>)
       \o (IF sc.Collate # "" THEN <<Part("COLLATE=", sc.Collate, NoClause, <<>>)>> ELSE <<>>)
       \o (IF sc.Comment # ""
           THEN <<Part("COMMENT=", escape(sc.Comment), NoClause, <<>>)>> ELSE <<>>))

(***************************************************************************)
(* The inputs: desired schemas and existing tables.                        *)
(***************************************************************************)
TableName == "t"

OptSeqs(S) == {<<>>} \cup {<<x>> : x \in S}

BaseField(n) == Field(n, "int(11)", FALSE, FALSE, "", "")

\* Field lists with unique names: a (one of VA) or not, b, c or not.
FieldLists(VA) ==
  {fa \o <<BaseField("b")>> \o fc : fa \in OptSeqs(VA), fc \in OptSeqs({BaseField("c")})}

FieldNamesOf(fields) == {fields[k].Name : k \in 1..Len(fields)}

\* The column lists of a primary index.
PrimaryColLists == {<<"b">>, <<"a", "b">>}

\* The indexes named i1: on one column, unique or not, or on two columns in
\* either order.
OtherIndexes ==
  {Index("i1", <<"a">>, FALSE, u) : u \in BOOLEAN}
  \cup {Index("i1", cols, FALSE, FALSE) : cols \in {<<"a", "b">>, <<"b", "a">>}}

\* Index lists with at most one primary index (named "" or "PRIMARY") and
\* at most one other index, whose columns are fields (named in N) of the
\* schema.
IndexLists(N, primaryNames) ==
  {p \o q :
     p \in OptSeqs({Index(nm, cols, TRUE, FALSE) :
                      nm \in primaryNames,
                      cols \in {c \in PrimaryColLists : Range(c) \subseteq N}}),
     q \in OptSeqs({x \in OtherIndexes : Range(x.Columns) \subseteq N})}

BaseAttrs == [Engine |-> "InnoDB", Collate |-> "utf8mb4_general_ci", Comment |-> ""]

\* Table attributes: those of BaseAttrs, another engine, another collation
\* and comment.
TableAttrs ==
  {BaseAttrs,
   [BaseAttrs EXCEPT !.Engine = "MyISAM"],
   [BaseAttrs EXCEPT !.Collate = "utf8mb4_bin", !.Comment = "it's"]}

\* The schemas with fields from FieldLists(VA) and attributes from AT.
Schemas(VA, primaryNames, AT) ==
  UNION {{Schema(TableName, fields, indices, at.Engine, at.Collate, at.Comment) :
            indices \in IndexLists(FieldNamesOf(fields), primaryNames), at \in AT} :
         fields \in FieldLists(VA)}

\* The desired schemas.
DesiredSchemas(VA) == Schemas(VA, {"", "PRIMARY"}, TableAttrs)

\* The table a schema describes, as CREATE TABLE makes it.
TableOf(sc) == Execute(NoTable, CreateStatement(sc))

\* A server that reports "no default" as the text NULL (COLUMN_DEFAULT of a
\* column is then the string "NULL"): the reason Field.Equal normalises it.
WithTextNull(t) ==
  [t EXCEPT !.Columns = [k \in 1..Len(t.Columns) |->
      IF t.Columns[k].COLUMN_DEFAULT = <<>> /\ t.Columns[k].COLUMN_NAME = "a"
      THEN [t.Columns[k] EXCEPT !.COLUMN_DEFAULT = <<"NULL">>]
      ELSE t.Columns[k]]]

\* The existing tables.
ExistingTables(VA) == {TableOf(s) : s \in Schemas(VA, {"PRIMARY"}, {BaseAttrs})}

vars == <<table, desired, current, rowsErr, pc, next, executed, err, runs, prev, calls, data, statRows, dataSchemaCache, loaders>>

(***************************************************************************)
(* Schema.Update as a process: the introspection, then one step per        *)
(* statement passed to db.ExecContext.                                     *)
(***************************************************************************)
InitCommon ==
  /\ current = Nil
  /\ statRows = <<>>
  /\ dataSchemaCache = <<>>
  /\ loaders = <<>>
  /\ rowsErr = FALSE
  /\ pc = "idle"
  /\ next = 0
  /\ executed = <<>>
  /\ err = ""
  /\ runs = 0
  /\ prev = "none"

VMain == {BaseField("a"), [BaseField("a") EXCEPT !.Type = "varchar(255)"]}

\* One Update call for any desired schema against any table.
Init ==
  /\ table \in ExistingTables(VMain) \cup {NoTable}
  /\ desired \in DesiredSchemas(VMain)
  /\ calls = 1
  /\ data = <<>>
  /\ InitCommon

\* Up to MaxRuns Update calls for a desired schema with the attributes the
\* table has.
InitTwice ==
  /\ table \in ExistingTables(VMain) \cup {NoTable}
  /\ desired \in Schemas(VMain, {"", "PRIMARY"}, {BaseAttrs})
  /\ calls = MaxRuns
  /\ data = <<>>
  /\ InitCommon

\* Lines 9-12: a probe of ReadFromDB fails and Update returns the error.
UpdateReadFails ==
  /\ pc = "idle"
  /\ runs < calls
  /\ \E e \in ReadErrors(table) :
       /\ err' = e
       /\ pc' = "done"
  /\ current' = Nil
  /\ UNCHANGED <<rowsErr, table, desired, next, executed, runs, prev, calls, data, statRows, dataSchemaCache, loaders>>

\* Lines 9-16 with part_000 lines 17-20: no row for the table, cur is nil.
UpdateReadNotFound ==
  /\ pc = "idle"
  /\ runs < calls
  /\ ~table.exists
  /\ current' = Nil
  /\ pc' = "create"
  /\ UNCHANGED <<rowsErr, table, desired, next, executed, err, runs, prev, calls, data, statRows, dataSchemaCache, loaders>>

\* The rows a `for rows.Next()` loop scans of the delivered rows: all of
\* them, or those before an error ended the iteration (rows.Err() is not
\* consulted, part_000 lines 29-46 and 54-75).
Prefixes(rows) ==
  {SubSeq(rows, 1, n) : n \in {m \in 0..Len(rows) : Len(rows) - m <= MaxLost}}

\* Lines 9-16: ReadFromDB returns the schema of the existing table; the
\* STATISTICS rows arrive in an order the query does not fix.
UpdateRead ==
  /\ pc = "idle"
  /\ runs < calls
  /\ table.exists
  /\ \E colRows \in Prefixes(table.Columns),
        idxRows \in UNION {Prefixes(p) : p \in PermSeqs(StatRows(table))} :
       LET cur == ReadFromDB(desired.Name, table, colRows, idxRows)
       IN /\ current' = Some(cur)
          /\ rowsErr' = (Len(colRows) < Len(table.Columns)
                          \/ Len(idxRows) < Cardinality(StatRows(table)))
          /\ IF UpdateStatements(desired, cur) = <<>>
             THEN pc' = "done" /\ err' = "nil" /\ next' = 0
             ELSE pc' = "alter" /\ err' = err /\ next' = 1
  /\ UNCHANGED <<table, desired, executed, runs, prev, calls, data, statRows, dataSchemaCache, loaders>>

\* Exec with the error of a failed ExecContext kept but not returned: the
\* loops go on to the next statement.
ExecGoesOn(stmt, last) ==
  /\ executed' = Append(executed, stmt)
  /\ \E delivered \in BOOLEAN :
       LET after == IF delivered THEN Execute(table, stmt) ELSE Rejected
       IN /\ table' = IF after = Rejected THEN table ELSE after
          /\ IF last
             THEN /\ pc' = "done" /\ next' = next
                  /\ err' = IF after = Rejected \/ err = "exec failed"
                            THEN "exec failed" ELSE "nil"
             ELSE /\ pc' = pc /\ next' = next + 1
                  /\ err' = IF after = Rejected THEN "exec failed" ELSE err

\* db.ExecContext(ctx, sql): the database executes stmt, or the call fails
\* (the statement is refused, or the connection or the context fails) and
\* leaves the table as it was.
Exec(stmt, last) ==
  /\ executed' = Append(executed, stmt)
  /\ \E delivered \in BOOLEAN :
       LET after == IF delivered THEN Execute(table, stmt) ELSE Rejected
       IN IF after = Rejected
          THEN /\ table' = table
               /\ err' = "exec failed"
               /\ pc' = "done"
               /\ next' = next
          ELSE /\ table' = after
               /\ IF last
                  THEN pc' = "done" /\ err' = "nil" /\ next' = next
                  ELSE pc' = pc /\ err' = err /\ next' = next + 1

\* Line 15: return sc.Create(db, ctx).
UpdateCreate ==
  /\ pc = "create"
  /\ Exec(CreateStatement(desired), TRUE)
  /\ UNCHANGED <<rowsErr, desired, current, runs, prev, calls, data, statRows, dataSchemaCache, loaders>>

\* Lines 33-121: the next ExecContext of the ALTER TABLE path.
UpdateAlter ==
  /\ pc = "alter"
  /\ LET stmts == UpdateStatements(desired, current[1])
     IN Exec(stmts[next], next = Len(stmts))
  /\ UNCHANGED <<rowsErr, desired, current, runs, prev, calls, data, statRows, dataSchemaCache, loaders>>

\* Update has returned; the caller may call it again.
Return ==
  /\ pc = "done"
  /\ pc' = "idle"
  /\ runs' = runs + 1
  /\ prev' = IF err # "nil" THEN (IF Len(executed) > 1 THEN "stopped" ELSE "failed")
             ELSE IF current = Nil THEN "created"
             ELSE IF executed = <<>> THEN "unchanged"
             ELSE "altered"
  /\ current' = Nil
  /\ rowsErr' = FALSE
  /\ next' = 0
  /\ executed' = <<>>
  /\ err' = ""
  /\ UNCHANGED <<table, desired, calls, data, statRows, dataSchemaCache, loaders>>

Next ==
  \/ UpdateReadFails
  \/ UpdateReadNotFound
  \/ UpdateRead
  \/ UpdateCreate
  \/ UpdateAlter
  \/ Return

Spec == Init /\ [][Next]_vars

\* Every field named n over the attribute values of the model.
AllFields(n) ==
  {Field(n, ty, nl, ai, df, cm) :
     ty \in {"int(11)", "varchar(255)"}, nl \in BOOLEAN, ai \in BOOLEAN,
     df \in {"", "NULL", "0"}, cm \in {"", "it's"}}

\* Schemas with the fields a (any of AllFields) and b, and a primary index.
FieldSchemas ==
  {Schema(TableName, <<f, BaseField("b")>>, <<Index("PRIMARY", <<"b">>, TRUE, FALSE)>>,
          BaseAttrs.Engine, BaseAttrs.Collate, BaseAttrs.Comment) : f \in AllFields("a")}

\* The inputs of the field comparison: every pair of definitions of a, the
\* existing one also as a server reports it that writes "no default" NULL.
InitFields ==
  /\ table \in {TableOf(s) : s \in FieldSchemas}
               \cup {WithTextNull(TableOf(s)) : s \in FieldSchemas} \cup {NoTable}
  /\ desired \in FieldSchemas
  /\ calls = 1
  /\ data = <<>>
  /\ InitCommon

SpecFields == InitFields /\ [][Next]_vars

SpecTwice == InitTwice /\ [][Next]_vars

\* Index lists as IndexLists, and the same with the primary index last.
IndexListsAnyOrder(N, primaryNames) ==
  IndexLists(N, primaryNames)
  \cup {<<l[2], l[1]>> : l \in {m \in IndexLists(N, primaryNames) : Len(m) = 2}}

\* Desired schemas whose primary index is at any position of Indices.
SchemasAnyOrder ==
  UNION {{Schema(TableName, fields, indices, at.Engine, at.Collate, at.Comment) :
            indices \in IndexListsAnyOrder(FieldNamesOf(fields), {"", "PRIMARY"}),
            at \in TableAttrs} :
         fields \in FieldLists({BaseField("a")})}

\* One Update call for a desired schema with its indexes in any order,
\* against no table or a table of the base fields.
InitAnyOrder ==
  /\ table \in ExistingTables({BaseField("a")}) \cup {NoTable}
  /\ desired \in SchemasAnyOrder
  /\ calls = 1
  /\ data = <<>>
  /\ InitCommon

SpecAnyOrder == InitAnyOrder /\ [][Next]_vars

\* Desired schemas one of whose indexes has no column.
SchemasNoColumns ==
  UNION {{[s EXCEPT !.Indices[k].Columns = <<>>] : k \in 1..Len(s.Indices)} :
         s \in Schemas({BaseField("a")}, {"", "PRIMARY"}, {BaseAttrs})}

\* One Update call for a desired schema with an index without columns,
\* against no table or a table of the base fields.
InitNoColumns ==
  /\ table \in ExistingTables({BaseField("a")}) \cup {NoTable}
  /\ desired \in SchemasNoColumns
  /\ calls = 1
  /\ data = <<>>
  /\ InitCommon

SpecNoColumns == InitNoColumns /\ [][Next]_vars

\* Table attributes with the engine, the collation or both left empty.
EmptyAttrs ==
  {[BaseAttrs EXCEPT !.Engine = ""],
   [BaseAttrs EXCEPT !.Collate = ""],
   [BaseAttrs EXCEPT !.Engine = "", !.Collate = ""]}

\* One Update call for a desired schema that leaves the engine or the
\* collation empty, against no table or a table of the base fields.
InitEmptyAttrs ==
  /\ table \in ExistingTables({BaseField("a")}) \cup {NoTable}
  /\ desired \in Schemas({BaseField("a")}, {"", "PRIMARY"}, EmptyAttrs)
  /\ calls = 1
  /\ data = <<>>
  /\ InitCommon

SpecEmptyAttrs == InitEmptyAttrs /\ [][Next]_vars

(***************************************************************************)
(* ReadFromDB called on its own, as TestSchemeRead calls it: the caller    *)
(* gets (schema, error) in current and err.                                *)
(***************************************************************************)
\* A caller of ReadFromDB for the table, which may exist or not.
InitRead ==
  /\ table \in ExistingTables(VMain) \cup {NoTable}
  /\ desired = Nil
  /\ calls = 0
  /\ data = <<>>
  /\ InitCommon

\* part_000 lines 11-14, 16-22, 24-27, 33-35, 48-51, 59-61: a probe fails
\* and ReadFromDB returns (nil, error).
ReadFails ==
  /\ pc = "idle"
  /\ \E e \in ReadErrors(table) : err' = e
  /\ current' = Nil
  /\ rowsErr' = FALSE
  /\ statRows' = <<>>
  /\ pc' = "read"
  /\ UNCHANGED <<table, desired, next, executed, runs, prev, calls, data, dataSchemaCache, loaders>>

\* part_000 lines 17-20: no row for the table, ReadFromDB returns (nil, nil).
ReadNotFound ==
  /\ pc = "idle"
  /\ ~table.exists
  /\ current' = Nil
  /\ err' = "nil"
  /\ rowsErr' = FALSE
  /\ statRows' = <<>>
  /\ pc' = "read"
  /\ UNCHANGED <<table, desired, next, executed, runs, prev, calls, data, dataSchemaCache, loaders>>

\* part_000 lines 24-77: ReadFromDB returns the schema built from the rows
\* its two loops scanned, and a nil error.
ReadFound ==
  /\ pc = "idle"
  /\ table.exists
  /\ \E colRows \in Prefixes(table.Columns),
        idxRows \in UNION {Prefixes(p) : p \in PermSeqs(StatRows(table))} :
       /\ current' = Some(ReadFromDB(TableName, table, colRows, idxRows))
       /\ rowsErr' = (Len(colRows) < Len(table.Columns)
                       \/ Len(idxRows) < Cardinality(StatRows(table)))
       /\ statRows' = idxRows
  /\ err' = "nil"
  /\ pc' = "read"
  /\ UNCHANGED <<table, desired, next, executed, runs, prev, calls, data, dataSchemaCache, loaders>>

\* The caller has the result and may read again.
ReadAgain ==
  /\ pc = "read"
  /\ pc' = "idle"
  /\ current' = Nil
  /\ err' = ""
  /\ rowsErr' = FALSE
  /\ statRows' = <<>>
  /\ UNCHANGED <<table, desired, next, executed, runs, prev, calls, data, dataSchemaCache, loaders>>

NextRead ==
  \/ ReadFails
  \/ ReadNotFound
  \/ ReadFound
  \/ ReadAgain

SpecRead == InitRead /\ [][NextRead]_vars

(***************************************************************************)
(* The tag-derived schema: GetSchema (src/sqlschema.reflect.go).  A struct *)
(* is the sequence of its fields; a tag is the sequence of its parts as    *)
(* strings.Split(tag, " ") yields them; a part is the sequence of its      *)
(* lexemes: runs of ordinary characters, "(", ")" and "\\".                *)
(***************************************************************************)
NONE == 0
ARRAY == 1
JSON == 2
YAML == 3
INDEX == 1
UNIQUE == 2
PRIMARY_KEY == 3

\* The text of a sequence of lexemes.
RECURSIVE Join(_)
Join(lexemes) == IF lexemes = <<>> THEN "" ELSE Head(lexemes) \o Join(Tail(lexemes))

\* The parameter up to the closing ")", a "\\" taking the next lexeme as it is.
RECURSIVE escapeOptionParameter(_)
escapeOptionParameter(p) ==
  IF p = <<>> THEN ""
  ELSE IF Head(p) = "\\" /\ Len(p) > 1
  THEN p[2] \o escapeOptionParameter(SubSeq(p, 3, Len(p)))
  ELSE IF Head(p) = ")" THEN ""
  ELSE Head(p) \o escapeOptionParameter(Tail(p))

\* x(y) parsed as <<x, y>>; a part without "(" as <<part, "">>.
parseOption(option) ==
  LET at == {k \in 1..Len(option) : option[k] = "("}
  IN IF at = {} THEN <<Join(option), "">>
     ELSE LET eox == CHOOSE k \in at : \A j \in at : k <= j
          IN <<Join(SubSeq(option, 1, eox - 1)),
               escapeOptionParameter(SubSeq(option, eox + 1, Len(option)))>>

\* A dataSchemaField as loadDataSchemaInfo makes it before parsing the tag.
dataSchemaField(name, kind, index) ==
  [Name |-> name, FieldType |-> kind, FieldIndex |-> index, ColumnName |-> "",
   IsPrimaryKey |-> FALSE, IsAutoincrement |-> FALSE, IsNullable |-> FALSE,
   DataStoreType |-> "", DefaultValue |-> "", SerializeMethod |-> NONE,
   SerializeDelimiter |-> "", IndexType |-> NONE, indexName |-> "", Comment |-> ""]

\* The column types that take a length, with the length used when none is given.
DefaultLength ==
  [tinyint |-> "(4)", int |-> "(11)", bigint |-> "(20)", decimal |-> "(10,0)",
   varchar |-> "(64)"]

\* The column types without a length.
PlainTypes ==
  {"float", "double", "text", "mediumtext", "longtext", "blob", "mediumblob",
   "longblob", "timestamp", "datetime"}

\* Lines 152-235: the switch over the option of one part of the tag.
OptionApplied(field, option, param) ==
  CASE option = "pk" ->
         [field EXCEPT !.IsPrimaryKey = TRUE, !.IndexType = PRIMARY_KEY,
                       !.indexName = "PRIMARY"]
    [] option = "ai" -> [field EXCEPT !.IsAutoincrement = TRUE]
    [] option = "null" -> [field EXCEPT !.IsNullable = TRUE]
    [] option = "unsigned" -> [field EXCEPT !.DataStoreType = @ \o " unsigned"]
    [] option = "def" -> [field EXCEPT !.DefaultValue = param]
    [] option = "arr" ->
         [field EXCEPT !.SerializeMethod = ARRAY, !.SerializeDelimiter = param]
    [] option = "json" -> [field EXCEPT !.SerializeMethod = JSON]
    [] option = "yaml" -> [field EXCEPT !.SerializeMethod = YAML]
    [] option = "unique" -> [field EXCEPT !.IndexType = UNIQUE, !.indexName = param]
    [] option = "index" -> [field EXCEPT !.IndexType = INDEX, !.indexName = param]
    [] option = "comment" -> [field EXCEPT !.Comment = param]
    [] option \in DOMAIN DefaultLength ->
         [field EXCEPT !.DataStoreType =
            option \o (IF param # "" THEN "(" \o param \o ")"
                       ELSE DefaultLength[option])]
    [] option \in PlainTypes -> [field EXCEPT !.DataStoreType = option]
    [] OTHER -> field

\* Line 151 and the switch: one option of the tag parsed and applied.
ApplyOption(field, p) ==
  The({OptionApplied(field, parsed[1], parsed[2]) : parsed \in {parseOption(p)}})

\* Lines 143-236: the first non-empty part is the column name, every later
\* one an option.
RECURSIVE ParseParts(_, _)
ParseParts(field, parts) ==
  IF parts = <<>> THEN field
  ELSE IF Join(Head(parts)) = "" THEN ParseParts(field, Tail(parts))
  ELSE The({ParseParts(f, Tail(parts)) :
              f \in {IF field.ColumnName = ""
                     THEN [field EXCEPT !.ColumnName = Join(Head(parts))]
                     ELSE ApplyOption(field, Head(parts))}})

\* Lines 237-239: an index without a name is named after the struct field.
DefaultIndexName(field) ==
  IF field.IndexType # NONE /\ field.indexName = ""
  THEN [field EXCEPT !.indexName = "idx_" \o field.Name]
  ELSE field

\* func parseFieldTag(field *dataSchemaField, tag string)
parseFieldTag(field, tag) ==
  The({DefaultIndexName(parsed) : parsed \in {ParseParts(field, tag)}})

\* Lines 263-286: the column type of a Go kind.
KindType(kind) ==
  CASE kind \in {"int8", "int16", "int32"} -> "int(11)"
    [] kind \in {"int", "int64"} -> "bigint(20)"
    [] kind \in {"uint8", "uint16", "uint32"} -> "int(11) unsigned"
    [] kind \in {"uint", "uint64"} -> "bigint(20) unsigned"
    [] kind = "float32" -> "float"
    [] kind = "float64" -> "double"
    [] kind = "string" -> "varchar(64)"
    [] kind = "[]uint8" -> "blob"
    [] kind = "slice" -> "mediumtext"
    [] OTHER -> "int"

\* Lines 250-293: the entry of field i of struct type v (Nil without a db tag).
SchemaFieldOf(v, i) ==
  IF v[i].Tag = Nil THEN Nil
  ELSE The({Some([parsed EXCEPT
                    !.ColumnName = IF @ = "" THEN v[i].Name ELSE @,
                    !.DataStoreType = IF @ = "" THEN KindType(v[i].Kind) ELSE @]) :
              parsed \in {parseFieldTag(dataSchemaField(v[i].Name, v[i].Kind, i - 1),
                                        v[i].Tag[1])}})

\* Lines 246-249 and 288-291: the info of the entries fields; of the fields
\* of one column, or with ai, the last one is kept.
dataSchemaInfo(fields) ==
  LET tagged == {i \in 1..Len(fields) : fields[i] # Nil}
      last(S) == CHOOSE i \in S : \A j \in S : j <= i
  IN [Fields |-> fields,
      ByColumName |->
        [c \in {fields[i][1].ColumnName : i \in tagged} |->
           fields[last({i \in tagged : fields[i][1].ColumnName = c})][1]],
      AIField |->
        IF \A i \in tagged : ~fields[i][1].IsAutoincrement THEN Nil
        ELSE fields[last({i \in tagged : fields[i][1].IsAutoincrement})]]

\* sync.Map.Store: the map with value under key, whatever it held.
MapStore(m, key, value) ==
  <<[k \in DOMAIN m \cup {key} |-> IF k = key THEN value ELSE m[k]], value>>

\* sync.Map.LoadOrStore: the map and the value it holds under key after the
\* call, which is the one already there if there is one.
LoadOrStore(m, key, value) ==
  IF key \in DOMAIN m THEN <<m, m[key]>>
  ELSE <<[k \in DOMAIN m \cup {key} |-> IF k = key THEN value ELSE m[k]], value>>

\* func loadDataSchemaInfo(v reflect.Type) *dataSchemaInfo, for a type the
\* cache does not hold.
loadDataSchemaInfo(v) ==
  The({dataSchemaInfo(fields) : fields \in {[i \in 1..Len(v) |-> SchemaFieldOf(v, i)]}})

\* Lines 333-346 without the search of lines 334-340: field starts an index
\* of its own.
WithIndexOfNoMerge(ret, field) ==
  IF field.IndexType = NONE THEN ret
  ELSE [ret EXCEPT !.Indices =
          Append(@, Index(field.indexName, <<field.ColumnName>>,
                          field.IndexType = PRIMARY_KEY, field.IndexType = UNIQUE))]

\* Lines 333-346: field joins the first index of ret named indexName, or
\* starts one.
WithIndexOf(ret, field) ==
  IF field.IndexType = NONE THEN ret
  ELSE IF \E j \in 1..Len(ret.Indices) : ret.Indices[j].Name = field.indexName
  THEN [ret EXCEPT !.Indices[CHOOSE j \in 1..Len(ret.Indices) :
                               /\ ret.Indices[j].Name = field.indexName
                               /\ \A k \in 1..(j - 1) :
                                    ret.Indices[k].Name # field.indexName].Columns =
                     Append(@, field.ColumnName)]
  ELSE [ret EXCEPT !.Indices =
          Append(@, Index(field.indexName, <<field.ColumnName>>,
                          field.IndexType = PRIMARY_KEY, field.IndexType = UNIQUE))]

\* Lines 324-331: the Field of a tagged struct field appended to ret.
WithFieldOf(ret, field) ==
  [ret EXCEPT !.Fields =
     Append(@, Field(field.ColumnName, field.DataStoreType, field.IsNullable,
                     field.IsAutoincrement, field.DefaultValue, field.Comment))]

RECURSIVE GetSchemaLoop(_, _)
\* Lines 319-349: one Field per tagged struct field, and its index.
GetSchemaLoop(fields, ret) ==
  IF fields = <<>> THEN ret
  ELSE IF Head(fields) = Nil THEN GetSchemaLoop(Tail(fields), ret)
  ELSE The({GetSchemaLoop(Tail(fields), r) :
              r \in {WithIndexOf(WithFieldOf(ret, Head(fields)[1]), Head(fields)[1])}})

\* func GetSchema(v any) *Schema, for v a struct or a pointer to one.
GetSchema(v) ==
  The({GetSchemaLoop(schema.Fields, Schema("", <<>>, <<>>, "", "", "")) :
         schema \in {loadDataSchemaInfo(v)}})

\* The struct of TestSchemaReflect cut down: up to MaxStructFields fields,
\* each without a db tag or with one of a few tags.
GoNames == <<"ID", "K", "V", "W">>

TagColumns == <<"id", "k", "v", "w">>

\* The option lists of the tags: none, pk, pk after a double space, a type
\* with pk and ai, unique and index with and without a name, null with def.
OptionLists ==
  {<<>>,
   <<<<"pk">>>>,
   <<<<>>, <<"pk">>>>,
   <<<<"bigint">>, <<"pk">>, <<"ai">>>>,
   <<<<"unique", "(", "u1", ")">>>>,
   <<<<"unique">>>>,
   <<<<"index", "(", "u1", ")">>>>,
   <<<<"null">>, <<"def", "(", "0", ")">>>>}

\* The tags of the field whose column is col: col and an option list, the
\* single part pk, or no db tag at all.
FieldTags(col) ==
  {Some(<<<<col>>>> \o opts) : opts \in OptionLists} \cup {Some(<<<<"pk">>>>), Nil}

RECURSIVE StructsOf(_)
\* The structs of n fields.
StructsOf(n) ==
  IF n = 0 THEN {<<>>}
  ELSE {Append(v, [Name |-> GoNames[n], Kind |-> "int", Tag |-> tag]) :
          v \in StructsOf(n - 1), tag \in FieldTags(TagColumns[n])}

Structs == UNION {StructsOf(n) : n \in 1..MaxStructFields}

\* The tables GetSchema's result is applied to: none, or t(id bigint(20)).
ReflectTables ==
  {NoTable,
   TableOf(Schema(TableName, <<Field("id", "bigint(20)", FALSE, FALSE, "", "")>>, <<>>,
                  BaseAttrs.Engine, BaseAttrs.Collate, BaseAttrs.Comment))}

\* sqlschema_test.go lines 33-36: sc := GetSchema(data), then the name, the
\* engine and the collation are set.
Reflect ==
  /\ pc = "new"
  /\ desired' = [GetSchema(data) EXCEPT !.Name = TableName, !.Engine = BaseAttrs.Engine,
                                        !.Collate = BaseAttrs.Collate]
  /\ dataSchemaCache' = LoadOrStore(dataSchemaCache, data,
                                    [ptr |-> 0, info |-> loadDataSchemaInfo(data)])[1]
  /\ pc' = "idle"
  /\ UNCHANGED <<table, current, rowsErr, next, executed, err, runs, prev, calls, data, statRows, loaders>>

\* A caller that derives the desired schema from a struct and calls Update.
InitReflect ==
  /\ data \in Structs
  /\ desired = Schema("", <<>>, <<>>, "", "", "")
  /\ table \in ReflectTables
  /\ calls = 1
  /\ current = Nil
  /\ statRows = <<>>
  /\ dataSchemaCache = <<>>
  /\ loaders = <<>>
  /\ rowsErr = FALSE
  /\ pc = "new"
  /\ next = 0
  /\ executed = <<>>
  /\ err = ""
  /\ runs = 0
  /\ prev = "none"

NextReflect ==
  \/ Reflect
  \/ Next

SpecReflect == InitReflect /\ [][NextReflect]_vars

(***************************************************************************)
(* Concurrent calls of loadDataSchemaInfo for one struct type: each        *)
(* goroutine does the Load of line 243 and, on a miss, builds its own      *)
(* dataSchemaInfo and does the LoadOrStore of line 294.  An entry is the   *)
(* pointer (named by the goroutine that allocated it) and what it points   *)
(* to.                                                                     *)
(***************************************************************************)
Loaders == 1..MaxLoaders

InitCache ==
  /\ data \in Structs
  /\ desired = Schema("", <<>>, <<>>, "", "", "")
  /\ table = NoTable
  /\ calls = 0
  /\ current = Nil
  /\ statRows = <<>>
  /\ dataSchemaCache = <<>>
  /\ loaders = [i \in Loaders |-> [pc |-> "call", built |-> FALSE, ret |-> Nil]]
  /\ rowsErr = FALSE
  /\ pc = "idle"
  /\ next = 0
  /\ executed = <<>>
  /\ err = ""
  /\ runs = 0
  /\ prev = "none"

\* Lines 243-245: a hit returns the stored entry, a miss goes on to build.
CacheLoad(i) ==
  /\ loaders[i].pc = "call"
  /\ loaders' = [loaders EXCEPT ![i] =
                   IF data \in DOMAIN dataSchemaCache
                   THEN [pc |-> "done", built |-> FALSE, ret |-> Some(dataSchemaCache[data])]
                   ELSE [pc |-> "build", built |-> FALSE, ret |-> Nil]]
  /\ UNCHANGED <<table, desired, current, rowsErr, pc, next, executed, err, runs, prev,
                 calls, data, statRows, dataSchemaCache>>

\* Lines 246-295: the goroutine builds info and returns what LoadOrStore
\* returns.
CacheLoadOrStore(i) ==
  /\ loaders[i].pc = "build"
  /\ LET r == LoadOrStore(dataSchemaCache, data,
                          [ptr |-> i, info |-> loadDataSchemaInfo(data)])
     IN /\ dataSchemaCache' = r[1]
        /\ loaders' = [loaders EXCEPT ![i] =
                         [pc |-> "done", built |-> TRUE, ret |-> Some(r[2])]]
  /\ UNCHANGED <<table, desired, current, rowsErr, pc, next, executed, err, runs, prev,
                 calls, data, statRows>>

NextCache == \E i \in Loaders : CacheLoad(i) \/ CacheLoadOrStore(i)

SpecCache == InitCache /\ [][NextCache]_vars

(***************************************************************************)
(* Notions the properties are stated with.                                 *)
(***************************************************************************)
\* The STATISTICS rows of t by index and, within an index, by SEQ_IN_INDEX.
OrderedStatRows(t) ==
  FlatMap(LAMBDA key : [n \in 1..Len(key.Columns) |->
                          [INDEX_NAME |-> key.INDEX_NAME, SEQ_IN_INDEX |-> n,
                           COLUMN_NAME |-> key.Columns[n], NON_UNIQUE |-> key.NON_UNIQUE]],
          t.Keys)

\* The structure of table t as a Schema: its columns in ordinal order, each
\* index with its columns in index order.
StructureOf(t) == ReadFromDB(TableName, t, t.Columns, OrderedStatRows(t))

\* Schemas a and d are structurally equivalent: equal table attributes, the
\* same fields under Field.Equal, the same indexes under Index.Equal.
Equivalent(a, d) ==
  /\ a.Engine = d.Engine /\ a.Collate = d.Collate /\ a.Comment = d.Comment
  /\ \A f \in Range(d.Fields) : \E g \in Range(a.Fields) : FieldEqual(g, f)
  /\ \A g \in Range(a.Fields) : \E f \in Range(d.Fields) : FieldEqual(g, f)
  /\ \A x \in Range(d.Indices) : \E y \in Range(a.Indices) : IndexEqual(y, x)
  /\ \A y \in Range(a.Indices) : \E x \in Range(d.Indices) : IndexEqual(y, x)

\* This call of Update took the ALTER TABLE path and returned nil.
AlteredOk == pc = "done" /\ err = "nil" /\ current # Nil

\* The parts of the statements in stmts, in order.
PartsOf(stmts) == FlatMap(LAMBDA st : st.parts, stmts)

\* C1: convergence of Schema.Update.  When Update has taken the ALTER TABLE
\* path and no statement failed, the table is structurally equivalent to the
\* desired schema: equal attributes, the same fields under Field.Equal, the
\* same indexes under Index.Equal.
C1_Convergence == AlteredOk => Equivalent(StructureOf(table), desired)

\* C2: self-diff.  When the introspected schema is structurally identical to
\* the desired one (the primary index named "" or "PRIMARY"), Update
\* executes no statement and returns nil.
C2_SelfDiffIsEmpty ==
  (current # Nil /\ Equivalent(current[1], desired))
    => (pc = "done" /\ err = "nil" /\ executed = <<>>)

\* C2's case: an Update that found an identical schema with a primary index
\* the desired schema names "" and a second index, and returned.
C2_Witness ==
  /\ current # Nil /\ Equivalent(current[1], desired) /\ pc = "done"
  /\ Len(desired.Indices) = 2 /\ desired.Indices[1].Name = ""
  /\ current[1].Indices[1].Name = "PRIMARY"

\* C3: running twice.  After an Update that ran to completion against an
\* existing table, the next Update executes no statement.
C3_SecondRunIsEmpty == prev \in {"altered", "unchanged"} => executed = <<>>

\* Fields fd and f differ in type, nullable, autoIncrement or comment, or in
\* their default values other than by "NULL" against no default.
Differs(fd, f) ==
  \/ fd.Type # f.Type
  \/ fd.Nullable # f.Nullable
  \/ fd.AutoIncrement # f.AutoIncrement
  \/ fd.Comment # f.Comment
  \/ (fd.DefaultValue # f.DefaultValue /\ {fd.DefaultValue, f.DefaultValue} # {"", "NULL"})

\* The positions in stmts of the statements with a part op of the name.
StmtsWith(stmts, op, name) ==
  {k \in 1..Len(stmts) : \E part \in Range(stmts[k].parts) : part.op = op /\ part.name = name}

\* C4: default normalisation.  For a field of the desired schema that the
\* introspected schema has by name, Field.Equal is false exactly when the
\* two differ in type, nullable, autoIncrement, comment or default, "NULL"
\* and no default being the same default; a completed Update has executed
\* one MODIFY for the field when they differ and none when they do not.
C4_DefaultNormalization ==
  AlteredOk =>
    \A f \in Range(desired.Fields) :
      LET fd == SchemaField(current[1], f.Name)
      IN fd # Nil =>
           /\ FieldEqual(fd[1], f) = ~Differs(fd[1], f)
           /\ Cardinality(StmtsWith(executed, "MODIFY", f.Name))
                = IF Differs(fd[1], f) THEN 1 ELSE 0

\* C4's case: the existing column reports the default "NULL", the desired
\* field declares none, and the completed Update has sent nothing.
C4_Witness ==
  /\ AlteredOk
  /\ executed = <<>>
  /\ \E f \in Range(desired.Fields) :
       /\ f.DefaultValue = ""
       /\ SchemaField(current[1], f.Name) # Nil
       /\ SchemaField(current[1], f.Name)[1].DefaultValue = "NULL"

\* The statements of stmts (by position) that drop, add or replace index.
IndexStmtsFor(stmts, index) ==
  {k \in 1..Len(stmts) :
     \E part \in Range(stmts[k].parts) :
       IF index.Primary
       THEN \/ part.op \in {"DROP PRIMARY KEY", "ADD PRIMARY KEY"}
            \/ (part.op = "DROP INDEX" /\ part.name = "PRIMARY")
       ELSE /\ part.op \in {"DROP INDEX", "ADD KEY", "ADD UNIQUE KEY"}
            /\ part.name = index.Name}

\* The replace statement of index: the old index dropped and index added
\* with its own column order, in one ALTER TABLE.
ReplaceOf(index) ==
  IF index.Primary
  THEN Stmt("ALTER TABLE", TableName,
            <<Part("DROP PRIMARY KEY", "", NoClause, <<>>),
              Part("ADD PRIMARY KEY", "", NoClause, index.Columns)>>)
  ELSE Stmt("ALTER TABLE", TableName,
            <<Part("DROP INDEX", index.Name, NoClause, <<>>),
              Part(IF index.Unique THEN "ADD UNIQUE KEY" ELSE "ADD KEY", index.Name,
                   NoClause, index.Columns)>>)

\* idx (introspected) and index (desired) differ only in their columns.
OnlyColumnsDiffer(idx, index) ==
  /\ idx.Primary = index.Primary
  /\ idx.Unique = index.Unique
  /\ idx.Columns # index.Columns

\* C5: index column order.  For an index of the desired schema matched by
\* name (or both primary) with an introspected one from which it differs
\* only in the order or number of columns, Index.Equal is false and a
\* completed Update has executed exactly one statement for it: the replace
\* statement with the desired column order.
C5_IndexOrderSensitive ==
  AlteredOk =>
    \A index \in Range(desired.Indices) :
      LET idx == SchemaIndex(current[1], index.Name)
      IN (idx # Nil /\ OnlyColumnsDiffer(idx[1], index)) =>
           /\ ~IndexEqual(idx[1], index)
           /\ \E k \in 1..Len(executed) :
                /\ IndexStmtsFor(executed, index) = {k}
                /\ executed[k] = ReplaceOf(index)

\* C5's case: a completed Update that replaced the primary index and an
\* index whose desired columns are the introspected ones in another order.
C5_Witness ==
  /\ AlteredOk
  /\ \E x, y \in Range(desired.Indices) :
       /\ x.Primary /\ ~y.Primary
       /\ SchemaIndex(current[1], x.Name) # Nil
       /\ OnlyColumnsDiffer(SchemaIndex(current[1], x.Name)[1], x)
       /\ SchemaIndex(current[1], y.Name) # Nil
       /\ OnlyColumnsDiffer(SchemaIndex(current[1], y.Name)[1], y)
       /\ Range(SchemaIndex(current[1], y.Name)[1].Columns) = Range(y.Columns)
       /\ ReplaceOf(x) \in Range(executed)
       /\ ReplaceOf(y) \in Range(executed)

\* The phase of a statement of the ALTER TABLE path: 1 table attributes,
\* 2 field drop, 3 field add or modify, 4 index drop, 5 index add or replace.
PhaseOf(stmt) ==
  LET first == stmt.parts[1]
  IN IF first.op \in {"ENGINE =", "COLLATE =", "COMMENT ="} THEN 1
     ELSE IF first.op = "DROP" THEN 2
     ELSE IF first.op \in {"ADD", "MODIFY"} THEN 3
     ELSE IF first.op = "DROP INDEX" /\ Len(stmt.parts) = 1 THEN 4
     ELSE 5

\* The position in names of the first element equal to name (0: none).
PositionIn(names, name) ==
  IF \E k \in 1..Len(names) : names[k] = name
  THEN CHOOSE k \in 1..Len(names) : names[k] = name /\ \A j \in 1..(k - 1) : names[j] # name
  ELSE 0

\* The position, in the list its loop ranges over, of what stmt is about.
PositionOf(stmt, sc, cur) ==
  LET last == stmt.parts[Len(stmt.parts)]
      nameOf(x) == IF x.Primary THEN "" ELSE x.Name
  IN CASE PhaseOf(stmt) = 2 ->
            PositionIn([k \in 1..Len(cur.Fields) |-> cur.Fields[k].Name], last.name)
       [] PhaseOf(stmt) = 3 ->
            PositionIn([k \in 1..Len(sc.Fields) |-> sc.Fields[k].Name], last.name)
       [] PhaseOf(stmt) = 4 ->
            PositionIn([k \in 1..Len(cur.Indices) |-> cur.Indices[k].Name], last.name)
       [] PhaseOf(stmt) = 5 ->
            PositionIn([k \in 1..Len(sc.Indices) |-> nameOf(sc.Indices[k])], last.name)
       [] OTHER -> 0

\* C6: phase ordering.  In every run of the ALTER TABLE path the statements
\* executed so far are ordered by phase: the table-attribute statement (at
\* most one) first, then field drops in the introspected field order, then
\* field adds and modifies in the desired field order, then index drops in
\* the introspected index order, then index adds and replaces in the desired
\* index order.
C6_PhaseOrder ==
  current # Nil =>
    \A j, k \in 1..Len(executed) :
      j < k =>
        \/ PhaseOf(executed[j]) < PhaseOf(executed[k])
        \/ /\ PhaseOf(executed[j]) = PhaseOf(executed[k])
           /\ PhaseOf(executed[j]) # 1
           /\ 0 < PositionOf(executed[j], desired, current[1])
           /\ PositionOf(executed[j], desired, current[1])
                < PositionOf(executed[k], desired, current[1])

\* C6's case: a completed Update that executed a statement of every phase.
C6_Witness ==
  /\ AlteredOk
  /\ {PhaseOf(executed[k]) : k \in 1..Len(executed)} = 1..5

IsPrefix(s, t) == Len(s) <= Len(t) /\ \A k \in 1..Len(s) : s[k] = t[k]

\* Every field and index of the introspected cur occurs unchanged in sc and
\* the table attributes are equal.
PurelyAdditive(sc, cur) ==
  /\ sc.Engine = cur.Engine /\ sc.Collate = cur.Collate /\ sc.Comment = cur.Comment
  /\ \A g \in Range(cur.Fields) : \E f \in Range(sc.Fields) : FieldEqual(g, f)
  /\ \A y \in Range(cur.Indices) : \E x \in Range(sc.Indices) : IndexEqual(y, x)

\* One ADD per field of sc that cur has no field named like, in sc's order,
\* then one ADD per index of sc that cur has no equal of, in sc's order.
AdditiveStatements(sc, cur) ==
  FlatMap(LAMBDA f :
            IF f.Name \in FieldNamesOf(cur.Fields) THEN <<>>
            ELSE <<Stmt("ALTER TABLE", TableName,
                        <<Part("ADD", f.Name, ColumnClause(f), <<>>)>>)>>,
          sc.Fields)
  \o FlatMap(LAMBDA x :
               IF \E y \in Range(cur.Indices) : IndexEqual(y, x) THEN <<>>
               ELSE <<Stmt("ALTER TABLE", TableName,
                           <<Part(IF x.Primary THEN "ADD PRIMARY KEY"
                                  ELSE IF x.Unique THEN "ADD UNIQUE KEY" ELSE "ADD KEY",
                                  IF x.Primary THEN "" ELSE x.Name, NoClause, x.Columns)>>)>>,
             sc.Indices)

\* C8: purely additive diff.  When every introspected field and index occurs
\* unchanged in the desired schema and the attributes are equal, Update
\* executes one ADD per missing field in the desired field order, then one
\* ADD per missing index in the desired index order, and nothing else.
C8_PurelyAdditive ==
  (current # Nil /\ PurelyAdditive(desired, current[1])) =>
    /\ IsPrefix(executed, AdditiveStatements(desired, current[1]))
    /\ (pc = "done" /\ err = "nil") => executed = AdditiveStatements(desired, current[1])

\* C8's case: a completed additive Update that added a field and then a
\* unique index on it to a table that had a primary index.
C8_Witness ==
  /\ AlteredOk
  /\ PurelyAdditive(desired, current[1])
  /\ current[1].Indices # <<>>
  /\ Len(executed) = 2
  /\ executed[1].parts[1].op = "ADD"
  /\ executed[2].parts[1].op = "ADD UNIQUE KEY"

\* The introspected cur has a primary index and sc has none.
PrimaryToDrop(sc, cur) ==
  /\ \E y \in Range(cur.Indices) : y.Primary
  /\ \A x \in Range(sc.Indices) : ~x.Primary

\* C10: primary-key drop form.  A completed Update that had to remove the
\* primary index (the table has one, the desired schema none) has executed
\* a statement with the dedicated DROP PRIMARY KEY form.
C10_DropsByPrimaryKeyForm ==
  (AlteredOk /\ PrimaryToDrop(desired, current[1])) =>
    \E k \in 1..Len(executed) :
      \E part \in Range(executed[k].parts) : part.op = "DROP PRIMARY KEY"

\* C7: not-found short-circuit.  The create path is entered only for a
\* table that does not exist, with cur nil; a call that ends on that path
\* has executed exactly the CREATE TABLE statement of Schema.Create and no
\* ALTER TABLE; and whenever a probe of ReadFromDB has failed (a query, a
\* scan, or the iteration of a result set), Update is done with that error
\* and has executed nothing.
C7_NotFoundShortCircuit ==
  /\ pc = "create" => (~table.exists /\ current = Nil /\ executed = <<>>)
  /\ (pc = "done" /\ current = Nil /\ err = "nil") =>
       /\ Len(executed) = 1
       /\ executed[1].verb = "CREATE TABLE IF NOT EXISTS"
       /\ executed[1] = CreateStatement(desired)
  /\ current = Nil => \A k \in 1..Len(executed) : executed[k].verb # "ALTER TABLE"
  /\ (pc = "done" /\ err \in ReadErrors(table)) => executed = <<>>
  /\ rowsErr => (pc = "done" /\ err \notin {"", "nil"} /\ executed = <<>>)

\* The tag carries the pk option: a part pk after the column name.
HasPk(tag) == \E k \in 2..Len(tag) : tag[k] = <<"pk">>

\* The columns of the struct fields whose tag carries pk, in declaration order.
PkColumns(v) ==
  FlatMap(LAMBDA f : IF f.Tag # Nil /\ HasPk(f.Tag[1]) THEN <<Join(f.Tag[1][1])>> ELSE <<>>, v)

C11_NoIndexOnDroppedColumn ==
  pc = "alter" =>
    \A part \in Range(UpdateStatements(desired, current[1])[next].parts) :
      part.op = "DROP" =>
        \A key \in Range(table.Keys) : part.name \notin Range(key.Columns)

\* The names of the clauses of parts whose op is in ops, in order.
ClauseNames(parts, ops) ==
  FlatMap(LAMBDA part : IF part.op \in ops THEN <<part.name>> ELSE <<>>, parts)

\* C12: CREATE TABLE clause order.  The statement Schema.Create has sent
\* renders the column clauses in field order, then the index clauses with
\* the PRIMARY KEY clause before every other index clause and the others in
\* index order, then the table attributes.
C12_CreateClauseOrder ==
  (pc = "done" /\ current = Nil /\ executed # <<>>) =>
    LET parts == executed[1].parts
        nf == Len(desired.Fields)
        ni == Len(desired.Indices)
    IN /\ Len(parts) >= nf + ni
       /\ \A k \in 1..nf :
            parts[k].op = "COLUMN" /\ parts[k].name = desired.Fields[k].Name
       /\ \A k \in (nf + 1)..(nf + ni) :
            /\ parts[k].op \in {"PRIMARY KEY", "UNIQUE KEY", "KEY"}
            /\ parts[k].op = "PRIMARY KEY" => k = nf + 1
       /\ ClauseNames(parts, {"UNIQUE KEY", "KEY"})
            = FlatMap(LAMBDA x : IF x.Primary THEN <<>> ELSE <<x.Name>>, desired.Indices)
       /\ \A k \in (nf + ni + 1)..Len(parts) :
            parts[k].op \in {"ENGINE=", "COLLATE=", "COMMENT="}

\* The index names of rows in the order of their first occurrence.
RECURSIVE FirstSeen(_, _)
FirstSeen(rows, seen) ==
  IF rows = <<>> THEN seen
  ELSE FirstSeen(Tail(rows),
                 IF Head(rows).INDEX_NAME \in Range(seen) THEN seen
                 ELSE Append(seen, Head(rows).INDEX_NAME))

\* ReadFromDB has returned a schema and scanned every row of the table.
ReadComplete == pc = "read" /\ current # Nil /\ ~rowsErr

\* C13: introspected index column order.  When ReadFromDB has scanned all
\* the rows, in whatever order the catalog delivered them, every index of
\* the returned schema lists its columns in ascending SEQ_IN_INDEX order
\* (the order of the key in the table), and the indexes are in the order
\* in which their first rows were delivered.
C13_IndexColumnsBySeq ==
  ReadComplete =>
    /\ \A y \in Range(current[1].Indices) :
         \E key \in Range(table.Keys) :
           key.INDEX_NAME = y.Name /\ y.Columns = key.Columns
    /\ [k \in 1..Len(current[1].Indices) |-> current[1].Indices[k].Name]
         = FirstSeen(statRows, <<>>)

\* C14: no partial schema on read error.  When a probe of ReadFromDB fails
\* or an error ends a row iteration early, ReadFromDB returns a nil schema
\* and a non-nil error; a schema it returns has every column and every
\* index of the table, each index with all its columns.
C14_NoPartialSchema ==
  pc = "read" =>
    /\ rowsErr => (current = Nil /\ err # "nil")
    /\ err # "nil" => current = Nil
    /\ current # Nil =>
         /\ {f.Name : f \in Range(current[1].Fields)} = ColumnNames(table)
         /\ \A key \in Range(table.Keys) :
              \E y \in Range(current[1].Indices) :
                y.Name = key.INDEX_NAME /\ Range(y.Columns) = Range(key.Columns)

\* C15: recovery after partial failure.  When a run of Update has failed at
\* a statement after it had applied earlier ones, and the next run has
\* returned with no statement failing, the table is structurally equivalent
\* to the desired schema.
C15_RecoveryAfterFailure ==
  (prev = "stopped" /\ pc = "done" /\ err = "nil")
    => Equivalent(StructureOf(table), desired)

\* The ops of the clauses that define an index, in ALTER TABLE and in
\* CREATE TABLE.
IndexDefOps ==
  {"ADD PRIMARY KEY", "ADD UNIQUE KEY", "ADD KEY", "PRIMARY KEY", "UNIQUE KEY", "KEY"}

\* C16: zero-column index is rejected.  No statement passed to the database
\* defines an index with an empty column list, and an Update whose desired
\* schema has an index without columns returns an error.
C16_ZeroColumnIndexRejected ==
  /\ \A part \in Range(PartsOf(executed)) : part.op \in IndexDefOps => part.cols # <<>>
  /\ (pc = "done" /\ \E x \in Range(desired.Indices) : x.Columns = <<>>) => err # "nil"

\* C17: write-once derived-schema cache.  Under any interleaving of the
\* concurrent calls of loadDataSchemaInfo for one struct type, every caller
\* that has returned holds the entry the cache holds for the type, and a
\* stored entry is never replaced or removed (so one entry is ever stored).
C17_WriteOnceCache ==
  /\ [](\A i \in DOMAIN loaders :
          loaders[i].pc = "done" =>
            (data \in DOMAIN dataSchemaCache /\ loaders[i].ret = Some(dataSchemaCache[data])))
  /\ [][\A k \in DOMAIN dataSchemaCache :
          k \in DOMAIN dataSchemaCache' /\ dataSchemaCache'[k] = dataSchemaCache[k]]_vars

\* C17's case: two goroutines missed at the Load, both built an entry and
\* both have returned, with the entry of the one that stored first.
C17_Witness ==
  \E i, j \in DOMAIN loaders :
    /\ i # j
    /\ loaders[i].pc = "done" /\ loaders[i].built
    /\ loaders[j].pc = "done" /\ loaders[j].built
    /\ loaders[i].ret = loaders[j].ret
    /\ loaders[i].ret = Some(dataSchemaCache[data])
    /\ dataSchemaCache[data].ptr = j

\* The tag has a unique or index option without a name.
HasNamelessIndex(tag) == \E k \in 2..Len(tag) : tag[k] \in {<<"unique">>, <<"index">>}

\* C18: default index name.  For every field whose tag has a unique or index
\* option without a name, the derived schema has an index named "idx_"
\* followed by the field's column name (the first part of the tag) on that
\* column, whatever the name of the Go field.
C18_DefaultIndexName ==
  (data # <<>> /\ pc # "new") =>
    \A f \in Range(data) :
      (f.Tag # Nil /\ HasNamelessIndex(f.Tag[1])) =>
        \E x \in Range(desired.Indices) :
          x.Name = "idx_" \o Join(f.Tag[1][1]) /\ Join(f.Tag[1][1]) \in Range(x.Columns)

\* C19: stop at first failure.  The step in which a statement fails makes
\* Update return: the table stays as the earlier statements left it, the
\* desired schema is not modified and the failed statement is the last one
\* passed to the database; an Update that returned a failed statement's
\* error has executed the statements up to the failed one and no other.
C19_StopAtFirstFailure ==
  /\ [][(pc \in {"create", "alter"} /\ err' = "exec failed") =>
          /\ pc' = "done"
          /\ table' = table
          /\ desired' = desired
          /\ Len(executed') = Len(executed) + 1]_vars
  /\ []((pc = "done" /\ err = "exec failed") =>
          executed = IF current = Nil THEN <<CreateStatement(desired)>>
                     ELSE SubSeq(UpdateStatements(desired, current[1]), 1, Len(executed)))
  /\ [][pc = "done" => (executed' = <<>> /\ table' = table /\ desired' = desired)]_vars

\* C19's case: Update returned the error of its second or later statement,
\* statements remain unsent, and the column its first statement added, which
\* the table did not have, is still there.
C19_Witness ==
  /\ pc = "done" /\ err = "exec failed" /\ current # Nil
  /\ Len(executed) >= 2
  /\ Len(executed) < Len(UpdateStatements(desired, current[1]))
  /\ \E part \in Range(executed[1].parts) :
       /\ part.op = "ADD"
       /\ part.name \in ColumnNames(table)
       /\ part.name \notin {f.Name : f \in Range(current[1].Fields)}
  /\ ~rowsErr

\* C20: empty table attributes are unspecified on both paths.  No statement
\* passed to the database, ALTER TABLE or CREATE TABLE, has an ENGINE or a
\* COLLATE clause with an empty value.
C20_NoEmptyAttributeClause ==
  \A part \in Range(PartsOf(executed)) :
    part.op \in {"ENGINE =", "COLLATE =", "ENGINE=", "COLLATE="} => part.name # ""

====
